---- MODULE Spec2Model ----
(***************************************************************************)
(* A model of the daily news aggregator (scripts/daily_aggregator.py,      *)
(* scripts/ai_content_extractor.py, scripts/utils/content_differ.py).      *)
(*                                                                         *)
(* Representation.                                                         *)
(*  - A Python str is a sequence of tokens.  A token is one character,     *)
(*    except that the scheme words "http:" and "https:" and a run of       *)
(*    decimal digits are one token each.                                   *)
(*  - A JSON value is a tagged record: Str(s), Num(n), Null, Obj(m), where *)
(*    m is a function from the keys that are present to JSON values.       *)
(*    Confidences are counted in hundredths (0.7 is 70).                   *)
(*  - A cleaned recommendation (a Python dict built by the extractor) is a *)
(*    function from its keys to values; title, url and description are     *)
(*    strings, date and source_date_section are the JSON values the LLM    *)
(*    gave, confidence is a number of hundredths.                          *)
(***************************************************************************)
EXTENDS Integers, Sequences, FiniteSets, TLC

(***************************************************************************)
(* Bounds of the model.                                                    *)
(***************************************************************************)
MaxRuns == 2
NumSources == 2
MaxRecs == 2
MaxRawItems == 2

(***************************************************************************)
(* Python strings and JSON values.                                         *)
(***************************************************************************)
Str(s) == [t |-> "str", s |-> s]
Num(n) == [t |-> "num", n |-> n]
Null == [t |-> "null"]
Obj(m) == [t |-> "obj", m |-> m]
Arr(a) == [t |-> "arr", a |-> a]
Bool(b) == [t |-> "bool", b |-> b]

\* dict.get(key, default)
Get(d, k, default) == IF k \in DOMAIN d THEN d[k] ELSE default

\* d[k] = v on a dict
Put(d, k, v) == [x \in DOMAIN d \cup {k} |-> IF x = k THEN v ELSE d[x]]

\* Python truthiness of a JSON value (used by "x or ''" and "if x")
Truthy(v) ==
    CASE v.t = "null" -> FALSE
      [] v.t = "str" -> v.s # <<>>
      [] v.t = "num" -> v.n # 0
      [] OTHER -> TRUE

\* str(v) of a non-string JSON value: a number prints as its digits
PyStr(v) == IF v.t = "num" THEN <<ToString(v.n)>> ELSE <<"?">>

\* s.startswith(p)
StartsWith(s, p) == Len(s) >= Len(p) /\ SubSeq(s, 1, Len(p)) = p

RECURSIVE LStrip(_)
LStrip(s) == IF s # <<>> /\ Head(s) = " " THEN LStrip(Tail(s)) ELSE s

RECURSIVE RStrip(_)
RStrip(s) ==
    IF s # <<>> /\ s[Len(s)] = " " THEN RStrip(SubSeq(s, 1, Len(s) - 1)) ELSE s

\* s.strip()
Strip(s) == RStrip(LStrip(s))

HttpScheme == <<"http:", "/", "/">>
HttpsScheme == <<"https:", "/", "/">>

(***************************************************************************)
(* utils/content_differ.py                                                 *)
(***************************************************************************)

\* hashlib.md5(...).hexdigest(): MD5 is taken to be collision free, so a
\* digest is represented by the string it digests.
MD5(s) == [md5 |-> s]

\* ContentDiffer.generate_content_hash: the digest of title followed by url,
\* with nothing between them.
generate_content_hash(rec) ==
    MD5(Get(rec, "title", <<>>) \o Get(rec, "url", <<>>))

\* a comparison against nothing
no_hashes(previous_data) == {}

\* the set comprehension of detect_new_recommendations (lines 34-36)
previous_hashes(previous_data) ==
    LET previous_recs == Get(previous_data, "recommendations", <<>>)
    IN  {generate_content_hash(previous_recs[i]) : i \in DOMAIN previous_recs}

\* the body of the loop of detect_new_recommendations for one item: what the
\* item is after the iteration (the dict is changed in place)
mark_if_new(rec, hashes) ==
    LET rec_hash == generate_content_hash(rec)
    IN  IF rec_hash \notin hashes
        THEN Put(Put(rec, "is_new", TRUE), "content_hash", rec_hash)
        ELSE rec

\* current_data['recommendations'] after detect_new_recommendations ran: the
\* loop writes is_new and content_hash into the dicts of the current list
recs_after_detect(current_data, previous_data) ==
    LET current_recs == Get(current_data, "recommendations", <<>>)
        hashes == previous_hashes(previous_data)
    IN  [i \in DOMAIN current_recs |-> mark_if_new(current_recs[i], hashes)]

RECURSIVE detect_loop(_, _, _, _)
detect_loop(current_recs, hashes, i, new_recommendations) ==
    IF i > Len(current_recs) THEN new_recommendations
    ELSE LET rec == current_recs[i]
         IN  detect_loop(current_recs, hashes, i + 1,
                 IF generate_content_hash(rec) \notin hashes
                 THEN Append(new_recommendations, mark_if_new(rec, hashes))
                 ELSE new_recommendations)

\* ContentDiffer.detect_new_recommendations: the returned list
detect_new_recommendations(current_data, previous_data) ==
    detect_loop(Get(current_data, "recommendations", <<>>),
                previous_hashes(previous_data), 1, <<>>)

\* ContentDiffer.filter_by_confidence
filter_by_confidence(recommendations, min_confidence) ==
    LET keep(rec) == Get(rec, "confidence", 0) >= min_confidence
    IN  SelectSeq(recommendations, keep)

\* The largest number a run of digits of a date section stands for.
MaxNumber == 31

\* the tokens that are runs of decimal digits (the regular expression's \d+)
IsDigits(tok) == \E n \in 0..MaxNumber : ToString(n) = tok

\* int(match.group(k))
IntOf(tok) == CHOOSE n \in 0..MaxNumber : ToString(n) = tok

\* The characters of the pattern (\d+)月(\d+)日: "yue" stands for the month
\* sign and "ri" for the day sign.
MonthSign == "yue"
DaySign == "ri"

\* whether the pattern matches the string at token i
matches_at(s, i) ==
    /\ i + 3 <= Len(s)
    /\ IsDigits(s[i])
    /\ s[i + 1] = MonthSign
    /\ IsDigits(s[i + 2])
    /\ s[i + 3] = DaySign

\* A function that raises is modelled by its outcome: Return(v) or Raise.
Return(v) == [ok |-> TRUE, v |-> v]
Raise == [ok |-> FALSE]

\* a test of the day that forgets the month
is_recent_ignoring_month(date_section, reference_date) ==
    IF ~Truthy(date_section) THEN Return(FALSE)
    ELSE IF date_section.t # "str" THEN Raise
    ELSE LET s == date_section.s
             hits == {i \in 1..Len(s) : matches_at(s, i)}
         IN  IF hits = {} THEN Return(FALSE)
             ELSE LET i == CHOOSE j \in hits : \A k \in hits : j <= k
                      day == IntOf(s[i + 2])
                      day_diff == IF reference_date.day >= day
                                  THEN reference_date.day - day
                                  ELSE day - reference_date.day
                  IN  Return(day_diff <= 3)

\* ContentDiffer._is_recent_date_section.  date_section is the JSON value the
\* recommendation carries; re.search raises TypeError on a value that is not
\* a string.  re.search returns the leftmost match only.
is_recent_date_section(date_section, reference_date) ==
    IF ~Truthy(date_section) THEN Return(FALSE)
    ELSE IF date_section.t # "str" THEN Raise
    ELSE LET s == date_section.s
             hits == {i \in 1..Len(s) : matches_at(s, i)}
         IN  IF hits = {} THEN Return(FALSE)
             ELSE LET i == CHOOSE j \in hits : \A k \in hits : j <= k
                      month == IntOf(s[i])
                      day == IntOf(s[i + 2])
                      day_diff == IF reference_date.day >= day
                                  THEN reference_date.day - day
                                  ELSE day - reference_date.day
                  IN  IF month = reference_date.month
                      THEN Return(day_diff <= 3)
                      ELSE Return(FALSE)

\* the rules of the date and of the date section only
date_relevant_without_is_new(rec, target_date, today) ==
    LET rec_date == Get(rec, "date", Null)
        date_section == Get(rec, "source_date_section", Str(<<>>))
    IN  IF Truthy(rec_date) /\ rec_date = Str(target_date) THEN Return(TRUE)
        ELSE LET recent == is_recent_date_section(date_section, today)
             IN  IF ~recent.ok THEN Raise ELSE Return(recent.v)

\* the three rules of filter_by_date_relevance for one item, in the order of
\* the loop body: Return(keep) or Raise
date_relevant(rec, target_date, today) ==
    LET rec_date == Get(rec, "date", Null)
        date_section == Get(rec, "source_date_section", Str(<<>>))
    IN  IF Truthy(rec_date) /\ rec_date = Str(target_date) THEN Return(TRUE)
        ELSE LET recent == is_recent_date_section(date_section, today)
             IN  IF ~recent.ok THEN Raise
                 ELSE IF recent.v THEN Return(TRUE)
                 ELSE Return(Get(rec, "is_new", FALSE))

\* ContentDiffer.filter_by_date_relevance: Return(the kept items) or Raise.
\* today is datetime.now(): [month, day, str], str being its %Y-%m-%d form.
filter_by_date_relevance(recommendations, target_date, today) ==
    LET keep(rec) == date_relevant(rec, target_date, today).ok
                     /\ date_relevant(rec, target_date, today).v
    IN  IF \E i \in DOMAIN recommendations :
               ~date_relevant(recommendations[i], target_date, today).ok
        THEN Raise
        ELSE Return(SelectSeq(recommendations, keep))

(***************************************************************************)
(* ai_content_extractor.py                                                 *)
(***************************************************************************)

\* an empty result with the confidence of the default page_info
empty_result_of_default_confidence(now) ==
    [recommendations |-> <<>>,
     page_info |-> Obj([total_found |-> Num(0),
                        extraction_confidence |-> Num(80),
                        page_type |-> Str(<<"unknown">>)]),
     extraction_timestamp |-> now]

\* AIContentExtractor._get_empty_result
get_empty_result(now) ==
    [recommendations |-> <<>>,
     page_info |-> Obj([total_found |-> Num(0),
                        extraction_confidence |-> Num(0),
                        page_type |-> Str(<<"unknown">>)]),
     extraction_timestamp |-> now]

\* "x = rec.get(key) or ''", then x.strip() for a string and
\* "str(x).strip() if x else ''" for anything else (lines 137-147, 162-166)
clean_text(rec, key) ==
    LET raw == Get(rec, key, Null)
        x == IF Truthy(raw) THEN raw ELSE Str(<<>>)
    IN  IF x.t = "str" THEN Strip(x.s)
        ELSE IF Truthy(x) THEN Strip(PyStr(x)) ELSE <<>>

\* a normalisation that repairs a site-relative path instead of skipping it
normalize_url_keeping_relative(url) ==
    IF StartsWith(url, HttpScheme) \/ StartsWith(url, HttpsScheme)
    THEN Return(url)
    ELSE IF StartsWith(url, <<"/", "/">>) THEN Return(<<"https:">> \o url)
    ELSE Return(HttpsScheme \o url)

\* lines 153-159: the url as kept, or Raise standing for "continue" (the item
\* is skipped)
normalize_url(url) ==
    IF StartsWith(url, HttpScheme) \/ StartsWith(url, HttpsScheme)
    THEN Return(url)
    ELSE IF StartsWith(url, <<"/", "/">>) THEN Return(<<"https:">> \o url)
    ELSE IF StartsWith(url, <<"/">>) THEN Raise
    ELSE Return(HttpsScheme \o url)

\* min(max(rec.get('confidence', 0.8), 0), 1), in hundredths; comparing
\* anything but a number with 0 raises TypeError
clean_confidence(rec) ==
    LET c == Get(rec, "confidence", Num(80))
    IN  IF c.t # "num" THEN Raise
        ELSE Return(IF c.n < 0 THEN 0 ELSE IF c.n > 100 THEN 100 ELSE c.n)

\* whether the loop of _validate_and_clean_result appends an item for rec
is_kept(rec) ==
    /\ rec.t = "obj"
    /\ clean_text(rec.m, "title") # <<>>
    /\ clean_text(rec.m, "url") # <<>>
    /\ normalize_url(clean_text(rec.m, "url")).ok

\* lines 168-176
cleaned_rec(rec, now) ==
    [title |-> clean_text(rec.m, "title"),
     url |-> normalize_url(clean_text(rec.m, "url")).v,
     description |-> clean_text(rec.m, "description"),
     date |-> Get(rec.m, "date", Null),
     source_date_section |-> Get(rec.m, "source_date_section", Str(<<>>)),
     confidence |-> clean_confidence(rec.m).v,
     extracted_at |-> now]

RECURSIVE clean_loop(_, _, _, _)
clean_loop(recommendations, i, valid_recommendations, now) ==
    IF i > Len(recommendations) THEN valid_recommendations
    ELSE LET rec == recommendations[i]
         IN  clean_loop(recommendations, i + 1,
                 IF is_kept(rec)
                 THEN Append(valid_recommendations, cleaned_rec(rec, now))
                 ELSE valid_recommendations,
                 now)

\* what "for rec in recommendations" iterates over: the items of a list; the
\* characters of a string and the keys of a dict are strings, none of them a
\* dict; None and numbers are not iterable (TypeError)
iterate(recommendations) ==
    CASE recommendations.t = "arr" -> Return(recommendations.a)
      [] recommendations.t \in {"str", "obj"} -> Return(<<>>)
      [] OTHER -> Raise

\* lines 180-188: the dict _validate_and_clean_result returns
cleaned_result(result, valid_recommendations, now) ==
    [recommendations |-> valid_recommendations,
     page_info |->
         Get(result.m, "page_info",
             Obj([total_found |-> Num(Len(valid_recommendations)),
                  extraction_confidence |-> Num(80),
                  page_type |-> Str(<<"unknown">>)])),
     extraction_timestamp |-> now]

\* AIContentExtractor._validate_and_clean_result: Return(the cleaned result)
\* or Raise (a TypeError of the loop)
validate_and_clean_result(result, now) ==
    IF result.t # "obj" THEN Return(get_empty_result(now))
    ELSE
      LET recommendations == Get(result.m, "recommendations", Arr(<<>>))
          items == iterate(recommendations)
      IN  IF ~items.ok THEN Raise
          ELSE IF \E i \in DOMAIN items.v :
                     is_kept(items.v[i]) /\ ~clean_confidence(items.v[i].m).ok
          THEN Raise
          ELSE Return(cleaned_result(result,
                                     clean_loop(items.v, 1, <<>>, now), now))

\* The outcomes of the chat completion call and of json.loads on its text.
ApiError == [kind |-> "api_error"]
BadJson == [kind |-> "bad_json"]
Json(v) == [kind |-> "json", result |-> v]

\* len(result.get('recommendations', [])) of line 105 raises when result is
\* no dict or the value has no length
can_count(result) ==
    /\ result.t = "obj"
    /\ Get(result.m, "recommendations", Arr(<<>>)).t \in {"arr", "str", "obj"}

\* lines 108-122: what extract_recommendations returns once the cleaning
\* returned or raised; writing target_date into a page_info that is no dict
\* raises as well
add_target_date(validated_result, target_date, now) ==
    IF ~validated_result.ok THEN get_empty_result(now)
    ELSE IF validated_result.v.page_info.t # "obj"
    THEN get_empty_result(now)
    ELSE [validated_result.v EXCEPT
            !.page_info = Obj(Put(@.m, "target_date", Str(target_date)))]

\* AIContentExtractor.extract_recommendations: every exception is caught and
\* turned into the empty result
extract_recommendations(llm, target_date, now) ==
    IF llm.kind # "json" THEN get_empty_result(now)
    ELSE IF ~can_count(llm.result) THEN get_empty_result(now)
    ELSE add_target_date(validate_and_clean_result(llm.result, now),
                         target_date, now)

(***************************************************************************)
(* daily_aggregator.py: the per-source state files                         *)
(***************************************************************************)

\* The keys of a saved recommendation whose values are Python strings.
StringKeys == {"title", "url", "description", "extracted_at", "content_hash"}

\* json.dump of one recommendation: a JSON object with a member per key
json_dump_rec(rec) ==
    Obj([k \in DOMAIN rec |->
            CASE k \in StringKeys -> Str(rec[k])
              [] k = "confidence" -> Num(rec[k])
              [] k = "is_new" -> Bool(rec[k])
              [] OTHER -> rec[k]])

\* json.load of one recommendation
json_load_rec(v) ==
    [k \in DOMAIN v.m |->
        CASE k \in StringKeys -> v.m[k].s
          [] k = "confidence" -> v.m[k].n
          [] k = "is_new" -> v.m[k].b
          [] OTHER -> v.m[k]]

\* a dump that writes the recommendations and the timestamp only
json_dump_without_page_info(data) ==
    Obj([k \in DOMAIN data \ {"page_info"} |->
            CASE k = "recommendations" ->
                     Arr([i \in DOMAIN data[k] |-> json_dump_rec(data[k][i])])
              [] OTHER -> Str(data[k])])

\* json.dump(data, f, ensure_ascii=False, indent=2): the document written
json_dump(data) ==
    Obj([k \in DOMAIN data |->
            CASE k = "recommendations" ->
                     Arr([i \in DOMAIN data[k] |-> json_dump_rec(data[k][i])])
              [] k = "extraction_timestamp" -> Str(data[k])
              [] OTHER -> data[k]])

\* json.load(f) of a document this program wrote
json_load(doc) ==
    [k \in DOMAIN doc.m |->
        CASE k = "recommendations" ->
                 [i \in DOMAIN doc.m[k].a |-> json_load_rec(doc.m[k].a[i])]
          [] k = "extraction_timestamp" -> doc.m[k].s
          [] OTHER -> doc.m[k]]

\* What a state file holds: nothing (no such file), a document, or the
\* remains of a write that failed after open(..., 'w') truncated the file.
NoFile == [kind |-> "none"]
Document(doc) == [kind |-> "text", doc |-> doc]
Truncated == [kind |-> "truncated"]

\* SmartDailyAggregator._load_previous_data: FileNotFoundError and every
\* other exception (a document that does not parse) give the empty shape
load_previous_data(state_file) ==
    IF state_file.kind = "text" THEN json_load(state_file.doc)
    ELSE [recommendations |-> <<>>, page_info |-> Obj(<<>>)]

\* a save that writes nothing
save_nothing(state_file, data, io) == state_file

\* SmartDailyAggregator._save_current_data: the file after the call.  io is
\* what the file system does: "ok", "open_failed" (open raises, the file is
\* as it was) or "write_failed" (the dump raises after the file was
\* truncated).  Either exception is caught and printed.
save_current_data(state_file, data, io) ==
    CASE io = "ok" -> Document(json_dump(data))
      [] io = "open_failed" -> state_file
      [] OTHER -> Truncated

(***************************************************************************)
(* daily_aggregator.py: process_source                                     *)
(***************************************************************************)

\* The default of self.config.get('ai_config', {}).get('min_confidence', 0.7)
DefaultMinConfidence == 70

\* datetime.now().isoformat() at clock reading n
Timestamp(n) == <<"T", ToString(n)>>

\* The values process_source computes in steps 5 and 6 (lines 187-200), from
\* the extraction and the state that was loaded.  current_data is given as it
\* is once detect_new_recommendations has marked its new items.
compare_and_filter(extracted, previous_data, min_confidence, today) ==
    [extracted |-> extracted,
     previous_data |-> previous_data,
     current_data |->
         [extracted EXCEPT
             !.recommendations = recs_after_detect(extracted, previous_data)],
     filtered_recs |->
         filter_by_date_relevance(
             filter_by_confidence(
                 detect_new_recommendations(extracted, previous_data),
                 min_confidence),
             today.str, today)]

\* steps 3 and 4 (lines 176-185) and the threshold of line 194, handed to
\* steps 5 and 6
source_locals(state_file, ai_config, llm, clock, today) ==
    compare_and_filter(
        extract_recommendations(llm, today.str, Timestamp(clock)),
        load_previous_data(state_file),
        Get(ai_config, "min_confidence", DefaultMinConfidence),
        today)

\* the status error result of lines 216-221
error_result(source_config, message) ==
    [source |-> source_config, new_recommendations |-> << >>,
     status |-> "error", error |-> message]

\* the same body with the save moved before the filters
source_outcome_saving_early(source_config, state_file, inp, l) ==
    IF "display_name" \notin DOMAIN source_config
    THEN [raised |-> TRUE, file |-> state_file, steps |-> {}]
    ELSE IF ~inp.fetch_ok
    THEN [raised |-> FALSE, file |-> state_file,
          steps |-> {"build_url", "fetch"},
          result |-> [source |-> source_config,
                      new_recommendations |-> << >>,
                      status |-> "fetch_failed"]]
    ELSE IF ~inp.dirs_ok
    THEN [raised |-> FALSE, file |-> state_file,
          steps |-> {"build_url", "fetch", "extract"},
          result |-> error_result(source_config, "OSError")]
    ELSE IF ~l.filtered_recs.ok
    THEN [raised |-> FALSE,
          file |-> save_current_data(state_file, l.current_data, inp.io),
          steps |-> {"build_url", "fetch", "extract", "load", "save"},
          result |-> error_result(source_config, "TypeError")]
    ELSE [raised |-> FALSE,
          file |-> save_current_data(state_file, l.current_data, inp.io),
          steps |-> {"build_url", "fetch", "extract", "load", "save"},
          extracted |-> l.extracted,
          previous_data |-> l.previous_data,
          saved |-> l.current_data,
          result |-> [source |-> source_config,
                      new_recommendations |-> l.filtered_recs.v,
                      total_extracted |->
                          Len(Get(l.current_data, "recommendations", << >>)),
                      status |-> "success"]]

\* the body of process_source, l being the values of its steps 3 to 6
source_outcome(source_config, state_file, inp, l) ==
    IF "display_name" \notin DOMAIN source_config
    THEN \* line 160, before the try: KeyError leaves the method
         [raised |-> TRUE, file |-> state_file, steps |-> {}]
    ELSE IF ~inp.fetch_ok
    THEN [raised |-> FALSE, file |-> state_file,
          steps |-> {"build_url", "fetch"},
          result |-> [source |-> source_config,
                      new_recommendations |-> << >>,
                      status |-> "fetch_failed"]]
    ELSE IF ~inp.dirs_ok
    THEN \* os.makedirs raises in _get_state_file_path (line 184)
         [raised |-> FALSE, file |-> state_file,
          steps |-> {"build_url", "fetch", "extract"},
          result |-> error_result(source_config, "OSError")]
    ELSE IF ~l.filtered_recs.ok
    THEN \* re.search raises in filter_by_date_relevance (line 200)
         [raised |-> FALSE, file |-> state_file,
          steps |-> {"build_url", "fetch", "extract", "load"},
          result |-> error_result(source_config, "TypeError")]
    ELSE [raised |-> FALSE,
          file |-> save_current_data(state_file, l.current_data, inp.io),
          steps |-> {"build_url", "fetch", "extract", "load", "save"},
          extracted |-> l.extracted,
          previous_data |-> l.previous_data,
          saved |-> l.current_data,
          result |-> [source |-> source_config,
                      new_recommendations |-> l.filtered_recs.v,
                      total_extracted |->
                          Len(Get(l.current_data, "recommendations", << >>)),
                      status |-> "success"]]

\* SmartDailyAggregator.process_source.  The inputs of one call:
\*   inp.fetch_ok  whether _fetch_content_with_requests returned text
\*   inp.llm       the outcome of the chat completion call
\*   inp.dirs_ok   whether os.makedirs of _get_state_file_path succeeded
\*   inp.io        what the file system does on the save
\* The outcome: raised (an exception left the method) or a result, with the
\* state file after the call, the steps that were taken and, for a success,
\* the extraction, the state that was loaded and the data handed to the save.
process_source(source_config, state_file, ai_config, inp, clock, today) ==
    source_outcome(source_config, state_file, inp,
                   source_locals(state_file, ai_config, inp.llm, clock, today))

(***************************************************************************)
(* The state of the program and of its files.                              *)
(***************************************************************************)
VARIABLES
    config,           \* self.config: [sources, ai_config]
    inputs,           \* source name -> what the network, the LLM and the
                      \*   disk may do in a call of process_source for it
    files,            \* data/state/<name>_extracted.json, by source name
    clock,            \* the number of runs started: the reading of the clock
    pc,               \* "idle", "loop", "done" or "raised" (run() raised)
    enabled_sources,  \* run(): the list comprehension of lines 232-235
    idx,              \* run(): the position of the for loop
    sources_data,     \* run(): source name -> [config, new_articles]
    total_new_items,  \* run()
    run_result,       \* what run() returned: "true" or "false"; "none" before
    digest_args,      \* the sources_data handed to generate_daily_digest
    outcomes,         \* this run: source name -> how process_source ended
    prev_shown,       \* the run before, if it wrote a digest: source name ->
                      \*   the hashes it showed and what its save did
    last_success,     \* source name -> the last call of process_source
                      \*   that returned status success
    last_call,        \* the last call of process_source: the source, the
                      \*   status and the files before it
    fn                \* the call of a function checked on its own

vars == <<config, inputs, files, clock, pc, enabled_sources, idx,
          sources_data, total_new_items, run_result, digest_args, outcomes,
          prev_shown, last_success, last_call, fn>>

run_vars == <<config, inputs, files, clock, pc, enabled_sources, idx,
              sources_data, total_new_items, run_result, digest_args,
              outcomes, prev_shown, last_success, last_call>>

\* datetime.now() of the runs: [month, day, str], str its %Y-%m-%d form
Today == [month |-> 9, day |-> 10, str |-> <<"2025-09-10">>]

SourceName(i) == "s" \o ToString(i)

\* The source entries a configuration may hold at position i: display_name
\* and enabled are optional keys of the JSON object.
SourceOptions(i) ==
    { [name |-> SourceName(i), display_name |-> "S"],
      [name |-> SourceName(i), display_name |-> "S", enabled |-> TRUE],
      [name |-> SourceName(i), display_name |-> "S", enabled |-> FALSE],
      [name |-> SourceName(i)] }

\* Every configuration of NumSources sources, ai_config left out.
Configs ==
    { [sources |-> srcs, ai_config |-> << >>] :
        srcs \in { q \in [1..NumSources ->
                            UNION {SourceOptions(i) : i \in 1..NumSources}] :
                     \A i \in 1..NumSources : q[i] \in SourceOptions(i) } }

\* The configuration of the runs that exercise the state files: two sources,
\* both enabled, one by default.
StateConfig ==
    [sources |-> << [name |-> "s1", display_name |-> "S", enabled |-> TRUE],
                    [name |-> "s2", display_name |-> "S"] >>,
     ai_config |-> << >>]

SourceNamesOf(cfg) == {cfg.sources[i].name : i \in DOMAIN cfg.sources}

\* The recommendations the model lets the LLM report.
ItemA == Obj([title |-> Str(<<"a">>), url |-> Str(HttpScheme \o <<"a">>),
              confidence |-> Num(90)])
ItemB == Obj([title |-> Str(<<" ", "b">>), url |-> Str(<<"/", "/", "b">>),
              confidence |-> Num(50)])
ItemD == Obj([title |-> Str(<<"d">>), url |-> Str(<<"d">>),
              source_date_section |-> Num(5)])

Payload(q) == Json(Obj([recommendations |-> Arr(q)]))
PayloadWithPageInfo(q) ==
    Json(Obj([recommendations |-> Arr(q),
              page_info |-> Obj([page_type |-> Str(<<"list">>)])]))

\* One call of process_source: whether the fetch returned text, the outcome
\* of the chat completion, whether os.makedirs succeeded, what the save did.
Input(fetch_ok, llm, dirs_ok, io) ==
    [fetch_ok |-> fetch_ok, llm |-> llm, dirs_ok |-> dirs_ok, io |-> io]

FetchFails == Input(FALSE, ApiError, TRUE, "ok")
MakedirsFails == Input(TRUE, ApiError, FALSE, "ok")

\* The environment of the runs that exercise run(), the same for every
\* source.
RunInputs ==
    { FetchFails,
      Input(TRUE, Payload(<<ItemA>>), TRUE, "ok"),
      Input(TRUE, Payload(<<ItemD>>), TRUE, "ok") }

\* The environment of the runs that exercise the state files: every outcome
\* for the first source, a few for the second.
StateInputs ==
    { FetchFails, MakedirsFails }
    \cup { Input(TRUE, llm, TRUE, "ok") :
             llm \in { ApiError, BadJson, Payload(<<ItemA>>),
                       Payload(<<ItemA, ItemB>>), Payload(<<ItemB, ItemA>>),
                       Payload(<<ItemD>>),
                       PayloadWithPageInfo(<<ItemB>>) } }
    \cup { Input(TRUE, Payload(<<ItemA>>), TRUE, io) :
             io \in {"open_failed", "write_failed"} }

OtherInputs ==
    { FetchFails, Input(TRUE, Payload(<<ItemA>>), TRUE, "ok") }

NoCall == [op |-> "none"]

InitRun(cfg, env, call) ==
    /\ config = cfg
    /\ inputs = env
    /\ files = [n \in SourceNamesOf(cfg) |-> NoFile]
    /\ clock = 0
    /\ pc = "idle"
    /\ enabled_sources = << >>
    /\ idx = 1
    /\ sources_data = << >>
    /\ total_new_items = 0
    /\ run_result = "none"
    /\ digest_args = << >>
    /\ outcomes = << >>
    /\ prev_shown = << >>
    /\ last_success = << >>
    /\ last_call = NoCall
    /\ fn = call

Init ==
    \E cfg \in Configs :
        InitRun(cfg, [n \in SourceNamesOf(cfg) |-> RunInputs], NoCall)

InitState ==
    InitRun(StateConfig,
            [n \in SourceNamesOf(StateConfig) |->
                IF n = "s1" THEN StateInputs ELSE OtherInputs],
            NoCall)

(***************************************************************************)
(* daily_aggregator.py: run                                                *)
(***************************************************************************)

\* a filter that takes every source
ignore_enabled(source) == TRUE

\* lines 232-235: source.get('enabled', True)
is_enabled(source) == Get(source, "enabled", TRUE)

\* the content hashes of a list of recommendations
HashesOf(recs) == {generate_content_hash(recs[i]) : i \in DOMAIN recs}

\* what the run that ends now showed in its digest, by source
Shown ==
    IF run_result = "true"
    THEN [n \in DOMAIN sources_data |->
             [hashes |-> HashesOf(sources_data[n].new_articles),
              io |-> outcomes[n].io]]
    ELSE << >>

\* run(), lines 228-237: a new process starts the job
StartRun ==
    /\ pc \in {"idle", "done", "raised"}
    /\ clock < MaxRuns
    /\ clock' = clock + 1
    /\ pc' = "loop"
    /\ enabled_sources' = SelectSeq(config.sources, is_enabled)
    /\ idx' = 1
    /\ sources_data' = << >>
    /\ total_new_items' = 0
    /\ run_result' = "none"
    /\ digest_args' = << >>
    /\ outcomes' = << >>
    /\ prev_shown' = Shown
    /\ UNCHANGED <<config, inputs, files, last_success, last_call, fn>>

\* run(), lines 240-248: what the loop does with the outcome of the call
record_result(source_config, source_name, inp, out) ==
    /\ files' = [files EXCEPT ![source_name] = out.file]
    /\ last_call' =
           [op |-> "process_source", name |-> source_name,
            status |-> IF out.raised THEN "raised"
                       ELSE out.result.status,
            files_before |-> files]
    /\ IF out.raised
       THEN /\ pc' = "raised"
            /\ outcomes' =
                   Put(outcomes, source_name,
                       [raised |-> TRUE, steps |-> out.steps,
                        io |-> "none"])
            /\ UNCHANGED <<idx, sources_data, total_new_items,
                           last_success>>
       ELSE /\ pc' = pc
            /\ idx' = idx + 1
            /\ outcomes' =
                   Put(outcomes, source_name,
                       [raised |-> FALSE, steps |-> out.steps,
                        result |-> out.result,
                        io |-> IF "save" \in out.steps
                               THEN inp.io ELSE "none"])
            /\ sources_data' =
                   Put(sources_data, source_name,
                       [config |-> source_config,
                        new_articles |->
                            out.result.new_recommendations])
            /\ total_new_items' =
                   total_new_items
                   + Len(out.result.new_recommendations)
            /\ last_success' =
                   IF out.result.status = "success"
                   THEN Put(last_success, source_name,
                            [extracted |-> out.extracted,
                             previous_data |-> out.previous_data,
                             saved |-> out.saved,
                             io |-> inp.io])
                   ELSE last_success

\* run(), lines 239-248: one iteration of the loop, process_source included
ProcessSource ==
    /\ pc = "loop"
    /\ idx <= Len(enabled_sources)
    /\ \E inp \in inputs[enabled_sources[idx].name] :
         record_result(enabled_sources[idx], enabled_sources[idx].name, inp,
                       process_source(enabled_sources[idx],
                                      files[enabled_sources[idx].name],
                                      config.ai_config, inp, clock, Today))
    /\ UNCHANGED <<config, inputs, clock, enabled_sources, run_result,
                   digest_args, prev_shown, fn>>

\* DigestGenerator.generate_daily_digest: whether the file was written
generate_daily_digest(data, written) == written

\* the digest generated whatever the total is
GenerateDigestUnguarded ==
    /\ pc = "loop"
    /\ idx > Len(enabled_sources)
    /\ \E written \in BOOLEAN :
         run_result' = IF generate_daily_digest(sources_data, written)
                       THEN "true" ELSE "false"
    /\ digest_args' = Append(digest_args, sources_data)
    /\ pc' = "done"
    /\ UNCHANGED <<config, inputs, files, clock, enabled_sources, idx,
                   sources_data, total_new_items, outcomes, prev_shown,
                   last_success, last_call, fn>>

\* run(), lines 251-268: the digest is generated
GenerateDigest ==
    /\ pc = "loop"
    /\ idx > Len(enabled_sources)
    /\ total_new_items > 0
    /\ \E written \in BOOLEAN :
         run_result' = IF generate_daily_digest(sources_data, written)
                       THEN "true" ELSE "false"
    /\ digest_args' = Append(digest_args, sources_data)
    /\ pc' = "done"
    /\ UNCHANGED <<config, inputs, files, clock, enabled_sources, idx,
                   sources_data, total_new_items, outcomes, prev_shown,
                   last_success, last_call, fn>>

\* run(), lines 269-271: nothing new
NothingNew ==
    /\ pc = "loop"
    /\ idx > Len(enabled_sources)
    /\ ~(total_new_items > 0)
    /\ run_result' = "false"
    /\ pc' = "done"
    /\ UNCHANGED <<config, inputs, files, clock, enabled_sources, idx,
                   sources_data, total_new_items, digest_args, outcomes,
                   prev_shown, last_success, last_call, fn>>

Next == StartRun \/ ProcessSource \/ GenerateDigest \/ NothingNew

Spec == Init /\ [][Next]_vars

SpecState == InitState /\ [][Next]_vars

(***************************************************************************)
(* The claims about run() and process_source.                              *)
(***************************************************************************)

Returned(n) == n \in DOMAIN outcomes /\ ~outcomes[n].raised

StatusOf(n) == outcomes[n].result.status

EnabledNames == {enabled_sources[i].name : i \in DOMAIN enabled_sources}

\* the recommendation without what detect_new_recommendations wrote into it
Unmark(rec) == [k \in DOMAIN rec \ {"is_new", "content_hash"} |-> rec[k]]

C2_DigestOnlyWhenNew ==
    /\ Len(digest_args) <= 1
    /\ digest_args # << >> => total_new_items > 0
    /\ (pc = "done"
        /\ \A n \in DOMAIN sources_data :
               sources_data[n].new_articles = << >>)
           => (run_result = "false" /\ digest_args = << >>)
    /\ pc # "done" => (run_result = "none" /\ digest_args = << >>)

\* A run of two sources ended; one of them extracted an item and returned
\* nothing new; nothing was handed to the digest generator.
C2_Witness ==
    /\ pc = "done"
    /\ Len(enabled_sources) >= 2
    /\ total_new_items = 0
    /\ \E n \in DOMAIN outcomes :
           /\ StatusOf(n) = "success"
           /\ outcomes[n].result.total_extracted > 0
    /\ run_result = "false"
    /\ digest_args = << >>

\* C3 as stated: when a run is over and the fetch of one of its sources
\* failed, that source has status fetch_failed and no recommendations, and
\* every enabled source was processed and has an entry in sources_data.
C3_FetchFailureIsolated ==
    (pc \in {"done", "raised"}
     /\ \E n \in DOMAIN outcomes :
            Returned(n) /\ StatusOf(n) = "fetch_failed")
    => /\ \A n \in DOMAIN outcomes :
              (Returned(n) /\ "fetch" \in outcomes[n].steps
               /\ "extract" \notin outcomes[n].steps)
              => (StatusOf(n) = "fetch_failed"
                  /\ outcomes[n].result.new_recommendations = << >>)
       /\ \A n \in EnabledNames :
              n \in DOMAIN outcomes /\ n \in DOMAIN sources_data

\* C4 as stated: no call of process_source raises, and run() never ends by
\* an exception.
C4_ExceptionsCaught ==
    /\ pc # "raised"
    /\ \A n \in DOMAIN outcomes : ~outcomes[n].raised

\* C5: a source with enabled = false is not processed (no step of
\* process_source is taken for it, its state file is never written, it has
\* no entry in sources_data nor in what the digest generator is handed); a
\* source without the key is in the list of enabled sources of every run.
C5_DisabledNeverProcessed ==
    \A i \in DOMAIN config.sources :
        LET source == config.sources[i]
        IN  /\ ("enabled" \in DOMAIN source /\ source.enabled = FALSE)
               => /\ source.name \notin DOMAIN outcomes
                  /\ source.name \notin DOMAIN sources_data
                  /\ source.name \notin EnabledNames
                  /\ files[source.name] = NoFile
                  /\ \A k \in DOMAIN digest_args :
                         source.name \notin DOMAIN digest_args[k]
            /\ ("enabled" \notin DOMAIN source /\ pc # "idle")
               => /\ source.name \in EnabledNames
                  /\ pc = "done" => source.name \in DOMAIN sources_data

\* A run ended with a digest; the configuration holds a disabled source with
\* every field and a source without the key, which was processed.
C5_Witness ==
    /\ pc = "done"
    /\ digest_args # << >>
    /\ \E i \in DOMAIN config.sources :
           /\ "enabled" \in DOMAIN config.sources[i]
           /\ ~config.sources[i].enabled
           /\ "display_name" \in DOMAIN config.sources[i]
    /\ \E i \in DOMAIN config.sources :
           /\ "enabled" \notin DOMAIN config.sources[i]
           /\ config.sources[i].name \in DOMAIN digest_args[1]

\* the files are what they were before the last call of process_source,
\* except the file of its source when it returned status success
OnlySuccessWrites ==
    last_call # NoCall =>
        \A n \in DOMAIN files :
            (n # last_call.name \/ last_call.status # "success")
                => files[n] = last_call.files_before[n]

\* C6 as stated: the state file of a source holds the data of the last call
\* of process_source for it that returned status success (no file before the
\* first one), and only a call that returns success changes a file.
C6_StateIsLastSuccess ==
    /\ \A n \in DOMAIN files :
           IF n \in DOMAIN last_success
           THEN files[n] = Document(json_dump(last_success[n].saved))
           ELSE files[n] = NoFile
    /\ OnlySuccessWrites

\* C6 as amended: the state file of a source holds the data of the last call
\* of process_source for it that returned status success when the save of
\* that call succeeded; when the save failed the file is as it was before
\* the call (open failed) or truncated (the write failed).  Only a call that
\* returns success changes a file, and only the file of its source.
C6_StateIsLastSavedSuccess ==
    /\ \A n \in DOMAIN files :
           IF n \in DOMAIN last_success
           THEN CASE last_success[n].io = "ok" ->
                         files[n] = Document(json_dump(last_success[n].saved))
                  [] last_success[n].io = "write_failed" ->
                         files[n] = Truncated
                  [] OTHER -> TRUE
           ELSE files[n] = NoFile
    /\ (last_call # NoCall /\ last_call.status = "success"
        /\ last_success[last_call.name].io = "open_failed")
           => files = last_call.files_before
    /\ OnlySuccessWrites

\* A call that ended in fetch_failed or error left the document of an earlier
\* success in place.
C6_Witness ==
    /\ last_call # NoCall
    /\ last_call.status \in {"fetch_failed", "error"}
    /\ last_call.name \in DOMAIN last_success
    /\ last_success[last_call.name].io = "ok"
    /\ files[last_call.name].kind = "text"
    /\ Len(last_success[last_call.name].saved.recommendations) > 0

\* C7: what a successful process_source hands to the save is the whole
\* extraction, item by item in its order (the new items carrying is_new and
\* content_hash); loading the file it wrote gives the same recommendations in
\* the same order and the same page_info; and what the call compared against
\* is what loading the file gave, so none of the items it returns has the
\* hash of an item of that state.
C7_StateRoundTrip ==
    /\ \A n \in DOMAIN last_success :
           LET c == last_success[n]
               loaded == load_previous_data(files[n])
           IN  /\ Len(c.saved.recommendations)
                      = Len(c.extracted.recommendations)
               /\ \A i \in DOMAIN c.saved.recommendations :
                      Unmark(c.saved.recommendations[i])
                          = c.extracted.recommendations[i]
               /\ c.saved.page_info = c.extracted.page_info
               /\ c.io = "ok"
                  => /\ loaded = c.saved
                     /\ loaded.recommendations = c.saved.recommendations
                     /\ loaded.page_info = c.saved.page_info
    /\ (last_call # NoCall /\ last_call.status = "success")
       => LET n == last_call.name
              before == load_previous_data(last_call.files_before[n])
          IN  /\ last_success[n].previous_data = before
              /\ n \in DOMAIN sources_data
                 => HashesOf(sources_data[n].new_articles)
                        \cap HashesOf(before.recommendations) = {}

\* The second run loaded a state of two items, one of them below the
\* confidence threshold, and saved two items again.
C7_Witness ==
    /\ clock = 2
    /\ last_call # NoCall
    /\ last_call.status = "success"
    /\ last_call.name = "s1"
    /\ last_call.files_before["s1"].kind = "text"
    /\ Len(last_success["s1"].previous_data.recommendations) = 2
    /\ \E i \in 1..2 :
           last_success["s1"].previous_data.recommendations[i].confidence
               < DefaultMinConfidence
    /\ last_success["s1"].io = "ok"
    /\ Len(last_success["s1"].saved.recommendations) = 2
    /\ "s1" \in DOMAIN sources_data
    /\ Len(sources_data["s1"].new_articles) < 2

(***************************************************************************)
(* The functions checked on their own: one call, its arguments drawn from  *)
(* a bounded set, the aggregator idle.                                     *)
(***************************************************************************)

\* the lists over S of at most n elements
SeqsUpTo(S, n) == UNION { [1..k -> S] : k \in 0..n }

InitCall(call) ==
    InitRun(StateConfig, [n \in SourceNamesOf(StateConfig) |-> OtherInputs],
            call)

\* ---- generate_content_hash ----

UrlX == HttpScheme \o <<"x">>

HashTitles == { <<"a">>, <<"a">> \o UrlX, <<"b">> }
HashUrls == { UrlX, UrlX \o UrlX, HttpsScheme \o <<"x">> }
HashRecs ==
    { [title |-> t, url |-> u, description |-> d, confidence |-> c] :
        t \in HashTitles, u \in HashUrls, d \in {<< >>, <<"d">>},
        c \in {80, 90} }

InitHash ==
    \E a \in HashRecs, b \in HashRecs :
        InitCall([op |-> "generate_content_hash", a |-> a, b |-> b])

\* generate_content_hash(a) and generate_content_hash(b)
CallHash ==
    /\ fn.op = "generate_content_hash"
    /\ fn' = [op |-> "hashed", a |-> fn.a, b |-> fn.b,
              hash_a |-> generate_content_hash(fn.a),
              hash_b |-> generate_content_hash(fn.b)]
    /\ UNCHANGED run_vars

SpecHash == InitHash /\ [][CallHash]_vars

\* C9 as stated: two recommendations have the same content hash exactly when
\* they have the same title and the same url (so the description and the
\* other fields never matter, and a change of title or of url always does).
C9_HashIsTitleAndUrl ==
    fn.op = "hashed" =>
        ((fn.hash_a = fn.hash_b)
            <=> (fn.a.title = fn.b.title /\ fn.a.url = fn.b.url))

\* ---- detect_new_recommendations ----

\* Recommendations as the extractor cleans them.
CleanA == cleaned_rec(ItemA, Timestamp(1))
CleanA2 ==
    cleaned_rec(Obj([title |-> Str(<<"a">>), url |-> Str(HttpScheme \o <<"a">>),
                     description |-> Str(<<"d">>), confidence |-> Num(60)]),
                Timestamp(1))
CleanB == cleaned_rec(ItemB, Timestamp(1))
CleanC ==
    cleaned_rec(Obj([title |-> Str(<<"c">>), url |-> Str(<<"c">>)]),
                Timestamp(0))

CurrentRecs == {CleanA, CleanA2, CleanB}

\* A saved state holds recommendations with and without the differ's marks.
PreviousRecs ==
    { Put(Put(CleanA, "is_new", TRUE), "content_hash",
          generate_content_hash(CleanA)),
      CleanB, CleanC }

DataOf(recs) ==
    [recommendations |-> recs, page_info |-> Obj(<< >>),
     extraction_timestamp |-> Timestamp(1)]

InitDetect ==
    \E c \in SeqsUpTo(CurrentRecs, MaxRecs),
       q \in SeqsUpTo(PreviousRecs, MaxRecs) :
        InitCall([op |-> "detect_new_recommendations",
                  current_data |-> DataOf(c), previous_data |-> DataOf(q)])

\* detect_new_recommendations(current_data, previous_data): what it returns
\* and what the two arguments are after the call (it writes into the items
\* of current_data and into nothing of previous_data)
CallDetect ==
    /\ fn.op = "detect_new_recommendations"
    /\ fn' = [op |-> "detected",
              current_data |-> fn.current_data,
              previous_data |-> fn.previous_data,
              result |-> detect_new_recommendations(fn.current_data,
                                                    fn.previous_data),
              current_after |->
                  [fn.current_data EXCEPT
                      !.recommendations =
                          recs_after_detect(fn.current_data,
                                            fn.previous_data)],
              previous_after |-> fn.previous_data]
    /\ UNCHANGED run_vars

SpecDetect == InitDetect /\ [][CallDetect]_vars

\* C8: the result is the list of the current items whose hash is the hash of
\* no previous item, in the order of the current list, each with is_new true
\* and with its content hash; the previous data is as it was.
C8_DetectReturnsTheUnknown ==
    fn.op = "detected" =>
        LET current_recs == fn.current_data.recommendations
            previous_recs == fn.previous_data.recommendations
            known == {generate_content_hash(previous_recs[i]) :
                          i \in DOMAIN previous_recs}
            unknown(rec) == generate_content_hash(rec) \notin known
            expected == SelectSeq(current_recs, unknown)
        IN  /\ Len(fn.result) = Len(expected)
            /\ \A k \in DOMAIN expected :
                   /\ Unmark(fn.result[k]) = expected[k]
                   /\ "is_new" \in DOMAIN fn.result[k]
                   /\ fn.result[k].is_new = TRUE
                   /\ "content_hash" \in DOMAIN fn.result[k]
                   /\ fn.result[k].content_hash
                          = generate_content_hash(expected[k])
            /\ fn.previous_after = fn.previous_data

\* Of two current items, the one that is in the previous data is left out
\* and the other is returned.
C8_Witness ==
    /\ fn.op = "detected"
    /\ Len(fn.current_data.recommendations) = 2
    /\ Len(fn.previous_data.recommendations) >= 1
    /\ Len(fn.result) = 1
    /\ fn.result[1].is_new

\* ---- _validate_and_clean_result ----

RawTitles == { Str(<<" ">>), Str(<<" ", "a", " ">>), Num(5) }
RawUrls ==
    { Str(<< >>), Str(<<"/", "a">>), Str(<<" ", "/", "a">>),
      Str(<<"/", "/", "a">>), Str(<<"a">>), Str(<<"http:", "/", "a">>),
      Str(HttpScheme \o <<"a">>), Str(HttpsScheme \o <<"a">>) }
RawItems ==
    { Obj([title |-> t, url |-> u]) : t \in RawTitles, u \in RawUrls }
    \cup { Obj([url |-> Str(<<"a">>)]),
           Obj([title |-> Str(<<"a">>)]),
           Obj([title |-> Str(<<"a">>), url |-> Str(<<"a">>),
                confidence |-> Null]),
           Str(<<"a">>) }

RawResults ==
    { Obj([recommendations |-> Arr(q)]) : q \in SeqsUpTo(RawItems, MaxRawItems) }
    \cup { Obj(<< >>), Obj([recommendations |-> Null]), Arr(<< >>) }

InitClean ==
    \E r \in RawResults :
        InitCall([op |-> "validate_and_clean_result", result |-> r])

\* _validate_and_clean_result(result)
CallClean ==
    /\ fn.op = "validate_and_clean_result"
    /\ fn' = [op |-> "cleaned", result |-> fn.result,
              out |-> validate_and_clean_result(fn.result, Timestamp(1))]
    /\ UNCHANGED run_vars

SpecClean == InitClean /\ [][CallClean]_vars

\* the text of a title or url as the claim reads it: the string trimmed; a
\* missing, null or empty value is the empty text; a number is its digits
TrimmedText(item, key) ==
    IF key \notin DOMAIN item.m THEN << >>
    ELSE LET v == item.m[key]
         IN  CASE v.t = "str" -> Strip(v.s)
               [] v.t = "num" /\ v.n # 0 -> <<ToString(v.n)>>
               [] OTHER -> << >>

SiteRelative(url) ==
    url # << >> /\ url[1] = "/" /\ (Len(url) = 1 \/ url[2] # "/")

MonthDay(m, d) == <<ToString(m), MonthSign, ToString(d), DaySign>>

\* The source_date_section values of the items: none, a date of the reference
\* month two, three and four days away, a date of another month, a section
\* with a date of another month before today's date, and a number.
DateSections ==
    { Str(<< >>),
      Str(MonthDay(9, 8)), Str(MonthDay(9, 13)), Str(MonthDay(9, 14)),
      Str(MonthDay(8, 10)),
      Str(MonthDay(8, 1) \o <<" ">> \o MonthDay(9, 10)),
      Num(5) }

OtherDay == <<"2025-09-09">>

\* The items handed to the filter: with or without a date, a date section
\* and the is_new mark.
DateItems ==
    { [title |-> <<"a">>, date |-> d, source_date_section |-> sec] :
        d \in {Null, Str(Today.str)}, sec \in DateSections }
    \cup
    { [title |-> <<"a">>, date |-> d, source_date_section |-> sec,
       is_new |-> TRUE] :
        d \in {Null, Str(Today.str)}, sec \in DateSections }
    \cup { [title |-> <<"a">>], [title |-> <<"a">>, is_new |-> FALSE] }

InitDate ==
    \E q \in SeqsUpTo(DateItems, MaxRecs), d \in {Today.str, OtherDay} :
        InitCall([op |-> "filter_by_date_relevance",
                  recommendations |-> q, target_date |-> d])

\* filter_by_date_relevance(recommendations, target_date), datetime.now()
\* being Today
CallDate ==
    /\ fn.op = "filter_by_date_relevance"
    /\ fn' = [op |-> "date_filtered",
              recommendations |-> fn.recommendations,
              target_date |-> fn.target_date,
              out |-> filter_by_date_relevance(fn.recommendations,
                                               fn.target_date, Today)]
    /\ UNCHANGED run_vars

SpecDate == InitDate /\ [][CallDate]_vars

\* rule (a): the date of the item is the target date
HasTargetDate(rec, target_date) ==
    "date" \in DOMAIN rec /\ rec.date = Str(target_date)

\* rule (c): the item is flagged is_new
IsFlaggedNew(rec) == "is_new" \in DOMAIN rec /\ rec.is_new = TRUE

\* the section is text
IsText(rec) ==
    "source_date_section" \in DOMAIN rec /\ rec.source_date_section.t = "str"

\* the places of a section where a month and a day are written
DatesIn(rec) ==
    IF IsText(rec)
    THEN {i \in 1..Len(rec.source_date_section.s) :
              matches_at(rec.source_date_section.s, i)}
    ELSE {}

\* the date written at place i is of the reference month and at most three
\* days from the reference day
NearAt(rec, i, reference_date) ==
    LET s == rec.source_date_section.s
        day == IntOf(s[i + 2])
    IN  /\ IntOf(s[i]) = reference_date.month
        /\ day - reference_date.day <= 3
        /\ reference_date.day - day <= 3

\* C11 as stated: when the filter returns, it returns, in their order, the
\* items for which (a) the date is the target date, or (b) the section
\* contains a month and a day, of the reference month and at most three days
\* from the reference day, or (c) is_new is set.
C11_KeptIffAnyRule ==
    (fn.op = "date_filtered" /\ fn.out.ok) =>
        LET rule(rec) ==
                \/ HasTargetDate(rec, fn.target_date)
                \/ \E i \in DatesIn(rec) : NearAt(rec, i, Today)
                \/ IsFlaggedNew(rec)
        IN  fn.out.v = SelectSeq(fn.recommendations, rule)

\* C11 as amended: rule (b) reads the first month and day written in the
\* section only.  When the filter returns, it returns, in their order, the
\* items for which (a), or (b) of the first date of the section, or (c)
\* holds; an item whose first date names another month does not pass (b).
\* The filter raises exactly when an item that fails (a) has a section that
\* is neither empty nor text.
C11_KeptIffAnyRuleOfFirstDate ==
    fn.op = "date_filtered" =>
        LET first(rec) == CHOOSE i \in DatesIn(rec) :
                              \A k \in DatesIn(rec) : i <= k
            rule(rec) ==
                \/ HasTargetDate(rec, fn.target_date)
                \/ DatesIn(rec) # {} /\ NearAt(rec, first(rec), Today)
                \/ IsFlaggedNew(rec)
            unreadable(rec) ==
                /\ ~HasTargetDate(rec, fn.target_date)
                /\ "source_date_section" \in DOMAIN rec
                /\ rec.source_date_section.t = "num"
                /\ rec.source_date_section.n # 0
        IN  /\ fn.out.ok
               <=> ~\E i \in DOMAIN fn.recommendations :
                       unreadable(fn.recommendations[i])
            /\ fn.out.ok
               => fn.out.v = SelectSeq(fn.recommendations, rule)

\* Of two items without the target date and without is_new, the one whose
\* section names a day three days away was kept and the one whose section
\* names another month first and today second was dropped.
C11_Witness ==
    /\ fn.op = "date_filtered"
    /\ fn.target_date = Today.str
    /\ Len(fn.recommendations) = 2
    /\ fn.recommendations[1]
           = [title |-> <<"a">>, date |-> Null,
              source_date_section |-> Str(MonthDay(9, 13))]
    /\ fn.recommendations[2]
           = [title |-> <<"a">>, date |-> Null,
              source_date_section |->
                  Str(MonthDay(8, 1) \o <<" ">> \o MonthDay(9, 10))]
    /\ fn.out.ok
    /\ fn.out.v = <<fn.recommendations[1]>>

\* ---- extract_recommendations ----

\* a response without choices or without text (line 101 raises)
Malformed == [kind |-> "malformed"]

\* What the chat completion may give: a failure, a malformed response, text
\* that is no JSON, and JSON payloads: the raw results of the cleaning, a
\* payload whose page_info is no object, and a payload whose only item has a
\* date section that is no text.
Completions ==
    { ApiError, Malformed, BadJson }
    \cup { Json(r) : r \in RawResults }
    \cup { Json(Obj([recommendations |-> Arr(<<ItemA>>), page_info |-> v])) :
             v \in {Str(<<"x">>), Null} }
    \cup { PayloadWithPageInfo(<<ItemA>>), Payload(<<ItemD>>),
           Json(Str(<<"x">>)), Json(Null) }

InitExtract ==
    \E llm \in Completions :
        InitCall([op |-> "extract_recommendations", llm |-> llm])

\* extract_recommendations(html_content, source_config) on a page that was
\* fetched, and the process_source that makes the call, on a source without a
\* state file
CallExtract ==
    /\ fn.op = "extract_recommendations"
    /\ fn' = [op |-> "extracted", llm |-> fn.llm,
              out |-> extract_recommendations(fn.llm, Today.str, Timestamp(1)),
              source |-> process_source(StateConfig.sources[1], NoFile,
                                        StateConfig.ai_config,
                                        Input(TRUE, fn.llm, TRUE, "ok"),
                                        1, Today)]
    /\ UNCHANGED run_vars

SpecExtract == InitExtract /\ [][CallExtract]_vars

\* an item the cleaning keeps (the rule of C10)
Complete(item) ==
    /\ item.t = "obj"
    /\ TrimmedText(item, "title") # << >>
    /\ TrimmedText(item, "url") # << >>
    /\ ~SiteRelative(TrimmedText(item, "url"))

\* The extraction fails: the call fails, the response is malformed, the text
\* is no JSON, the payload is no object, its recommendations have no length,
\* the confidence of an item to keep is no number, or page_info is no object.
ExtractionFails(llm) ==
    \/ llm.kind # "json"
    \/ llm.result.t # "obj"
    \/ /\ "recommendations" \in DOMAIN llm.result.m
       /\ llm.result.m.recommendations.t \in {"null", "num", "bool"}
    \/ /\ "recommendations" \in DOMAIN llm.result.m
       /\ llm.result.m.recommendations.t = "arr"
       /\ \E i \in DOMAIN llm.result.m.recommendations.a :
              LET item == llm.result.m.recommendations.a[i]
              IN  /\ Complete(item)
                  /\ "confidence" \in DOMAIN item.m
                  /\ item.m.confidence.t # "num"
    \/ /\ "page_info" \in DOMAIN llm.result.m
       /\ llm.result.m.page_info.t # "obj"

\* C12: extract_recommendations returns a result whatever the chat completion
\* gives.  When the extraction fails the result is the empty one (no
\* recommendations, total_found 0, extraction_confidence 0, page_type
\* unknown), and the process_source that made the call returns status
\* success with no recommendations, not status error.  When it does not fail
\* the result carries the target date in its page_info.
C12_ExtractionFailureIsEmptyResult ==
    fn.op = "extracted" =>
        /\ DOMAIN fn.out
               = {"recommendations", "page_info", "extraction_timestamp"}
        /\ ExtractionFails(fn.llm)
           => /\ fn.out.recommendations = << >>
              /\ fn.out.page_info
                     = Obj([total_found |-> Num(0),
                            extraction_confidence |-> Num(0),
                            page_type |-> Str(<<"unknown">>)])
              /\ ~fn.source.raised
              /\ fn.source.result.status = "success"
              /\ fn.source.result.new_recommendations = << >>
              /\ fn.source.result.total_extracted = 0
        /\ ~ExtractionFails(fn.llm)
           => /\ fn.out.page_info.t = "obj"
              /\ "target_date" \in DOMAIN fn.out.page_info.m
              /\ fn.out.page_info.m.target_date = Str(Today.str)

\* The payload held an item to keep whose confidence is null, so the cleaning
\* raised: the result is the empty one and process_source returned success.
C12_Witness ==
    /\ fn.op = "extracted"
    /\ fn.llm.kind = "json"
    /\ fn.llm.result.t = "obj"
    /\ "recommendations" \in DOMAIN fn.llm.result.m
    /\ fn.llm.result.m.recommendations
           = Arr(<<Obj([title |-> Str(<<"a">>), url |-> Str(<<"a">>),
                        confidence |-> Null])>>)
    /\ fn.out.recommendations = << >>
    /\ fn.out.page_info.m.extraction_confidence = Num(0)
    /\ fn.source.result.status = "success"

\* ---- process_source: the filters ----

\* an item of a month ago, at the default threshold
ItemOld ==
    Obj([title |-> Str(<<"e">>), url |-> Str(HttpScheme \o <<"e">>),
         date |-> Str(<<"2025-08-01">>),
         source_date_section |-> Str(MonthDay(8, 1)),
         confidence |-> Num(70)])

\* the ai_config of the configuration: without and with min_confidence
AiConfigs == { << >>, [min_confidence |-> 50], [min_confidence |-> 95] }

\* the state file of the source: none, one that holds ItemA, a truncated one
StateFiles ==
    { NoFile, Document(json_dump(DataOf(<<CleanA>>))), Truncated }

InitSource ==
    \E q \in SeqsUpTo({ItemA, ItemB, ItemD, ItemOld}, MaxRecs),
       ai_config \in AiConfigs, state_file \in StateFiles :
        InitCall([op |-> "process_source", llm |-> Payload(q),
                  ai_config |-> ai_config, state_file |-> state_file])

\* process_source(source_config) of a source whose page was fetched
CallSource ==
    /\ fn.op = "process_source"
    /\ fn' = [op |-> "processed", llm |-> fn.llm,
              ai_config |-> fn.ai_config, state_file |-> fn.state_file,
              source |-> process_source(StateConfig.sources[1],
                                        fn.state_file, fn.ai_config,
                                        Input(TRUE, fn.llm, TRUE, "ok"),
                                        2, Today)]
    /\ UNCHANGED run_vars

SpecSource == InitSource /\ [][CallSource]_vars

\* C13: the new_recommendations of a success result are, in the order of the
\* extraction, the extracted items whose hash is the hash of no item of the
\* previous state and whose confidence is at least min_confidence (0.7 when
\* ai_config has none), each flagged is_new, whatever their date and their
\* date section: the date filter removed none.
C13_NewAreUnknownAndConfident ==
    (fn.op = "processed" /\ ~fn.source.raised
     /\ fn.source.result.status = "success") =>
        LET min_confidence ==
                IF "min_confidence" \in DOMAIN fn.ai_config
                THEN fn.ai_config.min_confidence
                ELSE DefaultMinConfidence
            previous == load_previous_data(fn.state_file).recommendations
            known == {generate_content_hash(previous[i]) :
                          i \in DOMAIN previous}
            passes(rec) ==
                /\ generate_content_hash(rec) \notin known
                /\ rec.confidence >= min_confidence
            expected ==
                SelectSeq(fn.source.extracted.recommendations, passes)
            new_recommendations == fn.source.result.new_recommendations
        IN  /\ Len(new_recommendations) = Len(expected)
            /\ \A k \in DOMAIN expected :
                   /\ Unmark(new_recommendations[k]) = expected[k]
                   /\ "is_new" \in DOMAIN new_recommendations[k]
                   /\ new_recommendations[k].is_new = TRUE

\* Under the default threshold the item of a month ago, which is not in the
\* previous state, was returned, and the item of confidence 0.5 was not.
C13_Witness ==
    /\ fn.op = "processed"
    /\ fn.ai_config = << >>
    /\ fn.state_file.kind = "text"
    /\ fn.llm = Payload(<<ItemB, ItemOld>>)
    /\ ~fn.source.raised
    /\ fn.source.result.status = "success"
    /\ Len(fn.source.result.new_recommendations) = 1
    /\ fn.source.result.new_recommendations[1].title = <<"e">>
    /\ fn.source.result.new_recommendations[1].date = Str(<<"2025-08-01">>)

====
